---- MODULE Spec2Model ----
(***************************************************************************)
(* Model of src/analyze_and_parse_games.py: the coroutine analyze_game     *)
(* (engine session, ply loop, delta classification, move numbering) and    *)
(* its caller parse_pgn_to_csv (game loop, row building, exception         *)
(* handling).                                                              *)
(*                                                                         *)
(* A Python local that may be unbound, and a CSV field that may be '', is  *)
(* a sequence of length 0 (unbound / '') or 1 (<<value>>).                 *)
(* Of a CSV row only the columns computed from analyze_game's result are   *)
(* kept (Total Moves, the four totals, the four first-event columns); the  *)
(* header, opening-name, accuracy and Win-Loss-Draw columns carry no       *)
(* analysis data.                                                          *)
(***************************************************************************)
EXTENDS Integers, Sequences, FiniteSets, TLC

VARIABLES
    pc,                \* parse_pgn_to_csv: "open", "read", "analyze", "row", "returned"
    exc,               \* the exception in flight or caught ("none" if none was raised)
    outcome,           \* what parse_pgn_to_csv printed: "none", "success", "not_found", "error"
    pgn_file,          \* the PGN file: the number of plies of each of its games
    pgn_pos,           \* number of games read_game has consumed from the PGN file
    game,              \* plies in the mainline of the game last read (-1: None)
    game_count,        \* parse_pgn_to_csv's game_count
    rows,              \* data rows written to the CSV file (header excluded)
    result,            \* the tuple unpacked at line 150 (<<>> before the first return)
    oracle,            \* the scores the engine may report in this run
    ag,                \* analyze_game: "idle", "running", "returned", "raised"
    board,             \* number of moves pushed on the board
    info,              \* the engine's last answer (<<>>: none, or it failed)
    score,
    old_score,
    combined_move_num,
    move_num,
    black_mistakes,
    black_blunders,
    white_mistakes,
    white_blunders,
    popen_count,       \* engine sessions opened (popen_uci succeeded)
    quit_count,        \* engine.quit calls
    analyse_count      \* engine.analyse requests issued for the current game

parseVars == <<pc, exc, outcome, pgn_file, pgn_pos, game, game_count, rows, result, oracle>>
lists == <<black_mistakes, black_blunders, white_mistakes, white_blunders>>
loopVars == <<info, score, old_score, combined_move_num, move_num>>
gameVars == <<ag, board, loopVars, lists, popen_count, quit_count, analyse_count>>
vars == <<parseVars, gameVars>>

\* ---------------------------------------------------------------- bounds
MaxPlies == 6
MaxGames == 3
MaxBatchPlies == 2

\* Scores the engine reports in the single-game runs: their differences hit
\* 99, 100, 299, 300 and the negatives of these.
Evals == {-300, 0, 99, 100, 399}
\* Scores the engine reports in the batch runs.
EvalsBatch == {0, 300}

\* ---------------------------------------------------------------- analyze_game
mistake == 100
blunder == 300

\* floor division in place of true division and ceil
MoveNumFloor(c) == c \div 2

\* int(math.ceil(combined_move_num / 2)): true division, then rounding up.
MoveNum(c) == IF c % 2 = 0 THEN c \div 2 ELSE (c \div 2) + 1

\* the previous score of the first ply taken as 0
OldScoreZero(sc, v) == IF sc = <<>> THEN 0 ELSE sc[1]

\* try: old_score = score / except UnboundLocalError: old_score = this ply's score
OldScore(sc, v) == IF sc = <<>> THEN v ELSE sc[1]

\* the chain with each mistake test ahead of the blunder test of its side
ClassifyMistakeFirst(delta) ==
    IF delta >= mistake THEN "black_mistake"
    ELSE IF delta >= blunder THEN "black_blunder"
    ELSE IF delta <= 0 - mistake THEN "white_mistake"
    ELSE IF delta <= 0 - blunder THEN "white_blunder"
    ELSE "none"

\* the if/elif chain on score - old_score
Classify(delta) ==
    IF delta >= blunder THEN "black_blunder"
    ELSE IF delta >= mistake THEN "black_mistake"
    ELSE IF delta <= 0 - blunder THEN "white_blunder"
    ELSE IF delta <= 0 - mistake THEN "white_mistake"
    ELSE "none"

\* an append that skips a move number the list already ends with
ListAppendUnique(l, m) == IF l # <<>> /\ l[Len(l)] = m THEN l ELSE Append(l, m)

\* list.append(move_num)
ListAppend(l, m) == Append(l, m)

\* lines 28-42: open and configure the engine, initialise the locals
StartAnalysis ==
    /\ pc = "analyze" /\ exc = "none" /\ ag # "running"
    /\ board' = 0
    /\ analyse_count' = 0
    /\ info' = <<>> /\ score' = <<>> /\ old_score' = <<>> /\ move_num' = <<>>
    /\ \/ \* popen_uci fails: no session was opened
          /\ ag' = "raised" /\ exc' = "EngineError"
          /\ UNCHANGED <<popen_count, combined_move_num, lists>>
       \/ \* popen_uci succeeds, engine.configure fails
          /\ popen_count' = popen_count + 1
          /\ ag' = "raised" /\ exc' = "EngineError"
          /\ UNCHANGED <<combined_move_num, lists>>
       \/ /\ popen_count' = popen_count + 1
          /\ ag' = "running" /\ exc' = exc
          /\ combined_move_num' = 1
          /\ black_mistakes' = <<>> /\ black_blunders' = <<>>
          /\ white_mistakes' = <<>> /\ white_blunders' = <<>>
    /\ UNCHANGED <<pc, outcome, pgn_file, pgn_pos, game, game_count, rows, result,
                   oracle, quit_count>>

\* one iteration of the ply loop whose engine.analyse answers v
AnalysePly ==
    /\ ag = "running" /\ exc = "none" /\ board < game
    /\ \E v \in oracle :
         LET old == OldScore(score, v)
             mn  == MoveNum(combined_move_num)
             c   == Classify(v - old)
         IN /\ info' = <<v>>
            /\ old_score' = <<old>>
            /\ move_num' = <<mn>>
            /\ score' = <<v>>
            /\ black_blunders' = IF c = "black_blunder" THEN ListAppend(black_blunders, mn)
                                 ELSE black_blunders
            /\ black_mistakes' = IF c = "black_mistake" THEN ListAppend(black_mistakes, mn)
                                 ELSE black_mistakes
            /\ white_blunders' = IF c = "white_blunder" THEN ListAppend(white_blunders, mn)
                                 ELSE white_blunders
            /\ white_mistakes' = IF c = "white_mistake" THEN ListAppend(white_mistakes, mn)
                                 ELSE white_mistakes
    /\ board' = board + 1
    /\ analyse_count' = analyse_count + 1
    /\ combined_move_num' = combined_move_num + 1
    /\ UNCHANGED <<parseVars, ag, popen_count, quit_count>>

\* the failure caught inside the loop, which goes on to the next ply
AnalysePlyFailSwallowed ==
    /\ ag = "running" /\ exc = "none" /\ board < game
    /\ board' = board + 1
    /\ analyse_count' = analyse_count + 1
    /\ info' = <<>>
    /\ UNCHANGED <<parseVars, ag>>
    /\ UNCHANGED <<score, old_score, combined_move_num, move_num, lists,
                   popen_count, quit_count>>

\* one iteration of the ply loop whose engine.analyse raises
AnalysePlyFail ==
    /\ ag = "running" /\ exc = "none" /\ board < game
    /\ board' = board + 1
    /\ analyse_count' = analyse_count + 1
    /\ info' = <<>>
    /\ ag' = "raised" /\ exc' = "EngineError"
    /\ UNCHANGED <<pc, outcome, pgn_file, pgn_pos, game, game_count, rows, result, oracle>>
    /\ UNCHANGED <<score, old_score, combined_move_num, move_num, lists,
                   popen_count, quit_count>>

\* lines 68-70 and the unpacking at line 150: quit the engine, return the tuple
FinishAnalysis ==
    /\ ag = "running" /\ exc = "none" /\ board = game
    /\ quit_count' = quit_count + 1
    /\ IF move_num = <<>>
       THEN \* move_num was never assigned
            /\ ag' = "raised" /\ exc' = "UnboundLocalError"
            /\ UNCHANGED <<pc, result>>
       ELSE /\ ag' = "returned" /\ exc' = exc
            /\ result' = <<[white_mistakes |-> white_mistakes,
                            white_blunders |-> white_blunders,
                            black_mistakes |-> black_mistakes,
                            black_blunders |-> black_blunders,
                            move_num |-> move_num[1]]>>
            /\ pc' = "row"
    /\ UNCHANGED <<outcome, pgn_file, pgn_pos, game, game_count, rows, oracle>>
    /\ UNCHANGED <<board, loopVars, lists, popen_count, analyse_count>>

\* ---------------------------------------------------------------- parse_pgn_to_csv
\* the last entry in place of the first
FirstOfLast(l) == IF l = <<>> THEN <<>> ELSE <<l[Len(l)]>>

\* try: row_data.append(l[0]) / except IndexError: row_data.append('')
FirstOf(l) == IF l = <<>> THEN <<>> ELSE <<l[1]>>

\* lines 179-199: the columns of a row that come from analyze_game
Row(r) ==
    [total_moves |-> r.move_num,
     black_total_blunders |-> Len(r.black_blunders),
     black_total_mistakes |-> Len(r.black_mistakes),
     white_total_blunders |-> Len(r.white_blunders),
     white_total_mistakes |-> Len(r.white_mistakes),
     black_first_blunder |-> FirstOf(r.black_blunders),
     black_first_mistake |-> FirstOf(r.black_mistakes),
     white_first_blunder |-> FirstOf(r.white_blunders),
     white_first_mistake |-> FirstOf(r.white_mistakes)]

\* lines 113-135: make the directory, open the files, write the header
OpenFiles ==
    /\ pc = "open" /\ exc = "none"
    /\ \/ pc' = "read" /\ exc' = exc
       \/ pc' = pc /\ exc' = "FileNotFoundError"
    /\ UNCHANGED <<outcome, pgn_file, pgn_pos, game, game_count, rows, result, oracle>>
    /\ UNCHANGED gameVars

\* lines 137-148: read_game returns a game; look its accuracies up
ReadGame ==
    /\ pc = "read" /\ exc = "none" /\ pgn_pos < Len(pgn_file)
    /\ pgn_pos' = pgn_pos + 1
    /\ game' = pgn_file[pgn_pos + 1]
    /\ \/ pc' = "analyze" /\ exc' = exc
       \/ \* games_data[game_count]: the text file holds fewer games
          pc' = pc /\ exc' = "IndexError"
    /\ UNCHANGED <<outcome, pgn_file, game_count, rows, result, oracle>>
    /\ UNCHANGED gameVars

\* lines 137-140 and 204: read_game returns None, break, report success
EndOfFile ==
    /\ pc = "read" /\ exc = "none" /\ pgn_pos = Len(pgn_file)
    /\ game' = -1
    /\ pc' = "returned"
    /\ outcome' = "success"
    /\ UNCHANGED <<exc, pgn_file, pgn_pos, game_count, rows, result, oracle>>
    /\ UNCHANGED gameVars

\* lines 152-202: build the row of the analysed game and write it
WriteRow ==
    /\ pc = "row" /\ exc = "none"
    /\ \/ \* get_opening_name raises
          /\ exc' = "OpeningLookupError"
          /\ UNCHANGED <<pc, rows, game_count>>
       \/ /\ rows' = Append(rows, Row(result[1]))
          /\ game_count' = game_count + 1
          /\ pc' = "read"
          /\ exc' = exc
    /\ UNCHANGED <<outcome, pgn_file, pgn_pos, game, result, oracle>>
    /\ UNCHANGED gameVars

\* a handler that drops the failed game and goes on with the next one
ExceptSkipGame ==
    /\ exc # "none" /\ pc # "returned"
    /\ outcome' = "error"
    /\ pc' = "read"
    /\ exc' = "none"
    /\ UNCHANGED <<pgn_file, pgn_pos, game, game_count, rows, result, oracle>>
    /\ UNCHANGED gameVars

\* lines 206-209: the handlers of the outer try; the function then returns
Except ==
    /\ exc # "none" /\ pc # "returned"
    /\ outcome' = IF exc = "FileNotFoundError" THEN "not_found" ELSE "error"
    /\ pc' = "returned"
    /\ UNCHANGED <<exc, pgn_file, pgn_pos, game, game_count, rows, result, oracle>>
    /\ UNCHANGED gameVars

\* ---------------------------------------------------------------- specifications
InitCommon ==
    /\ pc = "open" /\ exc = "none" /\ outcome = "none"
    /\ pgn_pos = 0 /\ game = -1 /\ game_count = 0
    /\ rows = <<>> /\ result = <<>>
    /\ ag = "idle" /\ board = 0
    /\ info = <<>> /\ score = <<>> /\ old_score = <<>> /\ move_num = <<>>
    /\ combined_move_num = 1
    /\ black_mistakes = <<>> /\ black_blunders = <<>>
    /\ white_mistakes = <<>> /\ white_blunders = <<>>
    /\ popen_count = 0 /\ quit_count = 0 /\ analyse_count = 0

\* the PGN files of k games of at most n plies each
Files(k, n) == [1..k -> 0..n]

\* a PGN file of one game of up to MaxPlies plies
Init == InitCommon /\ pgn_file \in Files(1, MaxPlies) /\ oracle = Evals

\* a PGN file of up to MaxGames games of up to MaxBatchPlies plies
InitBatch ==
    /\ InitCommon
    /\ \E k \in 0..MaxGames : pgn_file \in Files(k, MaxBatchPlies)
    /\ oracle = EvalsBatch

Next ==
    \/ OpenFiles
    \/ ReadGame
    \/ EndOfFile
    \/ StartAnalysis
    \/ AnalysePly
    \/ AnalysePlyFail
    \/ FinishAnalysis
    \/ WriteRow
    \/ Except

Spec == Init /\ [][Next]_vars
SpecBatch == InitBatch /\ [][Next]_vars

\* ---------------------------------------------------------------- properties
TotalEvents ==
    Len(white_mistakes) + Len(white_blunders) + Len(black_mistakes) + Len(black_blunders)

Ended == ag \in {"returned", "raised"}

\* a step that ran one ply of the loop to its end
PlyDone == combined_move_num' = combined_move_num + 1

Sorted(l) == \A i \in 1..(Len(l) - 1) : l[i] <= l[i + 1]

IsPrefix(l, k) == Len(l) <= Len(k) /\ SubSeq(k, 1, Len(l)) = l

\* the least m with 2m >= p
CeilHalf(p) == CHOOSE m \in 0..p : 2 * m >= p /\ 2 * (m - 1) < p

\* C1: on every ply after the first, with delta = score - previous score, exactly
\* one outcome occurs: delta >= 300 appends the move number to black_blunders
\* only, 100 <= delta < 300 to black_mistakes only, delta <= -300 to
\* white_blunders only, -300 < delta <= -100 to white_mistakes only, and
\* -100 < delta < 100 appends nothing.
C1_Classification ==
    [][(score # <<>> /\ PlyDone) =>
        LET delta == score'[1] - score[1]
            m == move_num'[1]
        IN /\ delta >= 300 =>
                /\ black_blunders' = Append(black_blunders, m)
                /\ UNCHANGED <<black_mistakes, white_mistakes, white_blunders>>
           /\ (100 <= delta /\ delta < 300) =>
                /\ black_mistakes' = Append(black_mistakes, m)
                /\ UNCHANGED <<black_blunders, white_mistakes, white_blunders>>
           /\ delta <= -300 =>
                /\ white_blunders' = Append(white_blunders, m)
                /\ UNCHANGED <<black_mistakes, black_blunders, white_mistakes>>
           /\ (-300 < delta /\ delta <= -100) =>
                /\ white_mistakes' = Append(white_mistakes, m)
                /\ UNCHANGED <<black_mistakes, black_blunders, white_blunders>>
           /\ (-100 < delta /\ delta < 100) => UNCHANGED lists
      ]_vars

\* a ply with delta 99 left the lists alone after a 300 and a -299 were classified
C1_Witness ==
    /\ ag = "running" /\ old_score # <<>> /\ score # <<>>
    /\ score[1] - old_score[1] = 99
    /\ black_blunders # <<>> /\ white_mistakes # <<>>
    /\ black_mistakes = <<>> /\ white_blunders = <<>>

\* C2: the engine session is released on every exit path of analyze_game:
\* whenever analyze_game has ended, every session opened has been quit.
C2_EngineReleased == Ended => quit_count = popen_count

\* C3: the first ply never produces an event whatever the engine reports; a
\* completed analysis of N >= 1 plies holds at most N - 1 events, and a one-ply
\* game returns four empty lists.
C3_FirstPlyNoEvent ==
    /\ (ag \in {"running", "returned"} /\ board <= 1) => TotalEvents = 0
    /\ (ag = "returned" /\ game >= 1) =>
         LET r == result[1]
             n == Len(r.white_mistakes) + Len(r.white_blunders)
                  + Len(r.black_mistakes) + Len(r.black_blunders)
         IN /\ n <= game - 1
            /\ game = 1 => /\ r.white_mistakes = <<>> /\ r.white_blunders = <<>>
                           /\ r.black_mistakes = <<>> /\ r.black_blunders = <<>>

\* a one-ply game whose only evaluation was extreme has returned
C3_Witness == ag = "returned" /\ game = 1 /\ score = <<399>> /\ result # <<>>

\* C4: an entry is appended to black_mistakes or black_blunders only on an even
\* ply, and to white_mistakes or white_blunders only on an odd ply.
C4_Attribution ==
    [][/\ (Len(black_mistakes') > Len(black_mistakes)
           \/ Len(black_blunders') > Len(black_blunders)) => combined_move_num % 2 = 0
       /\ (Len(white_mistakes') > Len(white_mistakes)
           \/ Len(white_blunders') > Len(white_blunders)) => combined_move_num % 2 = 1
      ]_vars

C5_Inv ==
    /\ move_num # <<>> => move_num[1] = CeilHalf(combined_move_num - 1)
    /\ (ag = "returned" /\ game >= 1) => result[1].move_num = CeilHalf(game)

C5_Step ==
    (move_num # <<>> /\ PlyDone) =>
        /\ move_num'[1] >= move_num[1]
        /\ combined_move_num % 2 = 1 => move_num'[1] = move_num[1] + 1
        /\ combined_move_num % 2 = 0 => move_num'[1] = move_num[1]

\* C5: the move number of ply p is ceil(p / 2); it never decreases from one ply
\* to the next and grows by exactly 1 on every odd ply after the first; the move
\* count returned for a game of N >= 1 plies is ceil(N / 2).
C5_MoveNumber == []C5_Inv /\ [][C5_Step]_vars

\* a five-ply game has returned move count 3
C5_Witness == ag = "returned" /\ game = 5 /\ result[1].move_num = 3

\* C6: analysing a game of zero plies completes and returns four empty lists and
\* move number 0.
C6_EmptyGameReturns ==
    (game = 0 /\ Ended /\ exc # "EngineError") =>
        /\ ag = "returned"
        /\ result = <<[white_mistakes |-> <<>>, white_blunders |-> <<>>,
                       black_mistakes |-> <<>>, black_blunders |-> <<>>,
                       move_num |-> 0]>>

\* C7: when engine.analyse fails, analyze_game raises the failure to its caller
\* and hands over no result; after that it issues no further request and never
\* returns a result for that game.
C7_FailureRaised ==
    [][/\ (analyse_count' = analyse_count + 1 /\ info' = <<>>) =>
            /\ ag' = "raised" /\ exc' = "EngineError"
            /\ result' = result
       /\ ag = "raised" =>
            /\ ag' = "raised"
            /\ analyse_count' = analyse_count
            /\ result' = result
            /\ exc' = exc
      ]_vars

\* the engine failed part-way through a game after events had been recorded
C7_Witness ==
    /\ ag = "raised" /\ exc = "EngineError"
    /\ analyse_count >= 2 /\ analyse_count < game
    /\ TotalEvents >= 1 /\ result = <<>>

FieldOK(count, first, l) ==
    /\ count = Len(l)
    /\ first = <<>> <=> count = 0
    /\ l # <<>> => /\ first = <<l[1]>>
                   /\ \A i \in 1..Len(l) : first[1] <= l[i]

\* C8: the row written for an analysed game carries, per side and category, the
\* number of events and the move number of the earliest event, which is the
\* smallest of the list; the first-event field is empty iff the count is 0.
C8_Record ==
    (pc \in {"read", "returned"} /\ exc = "none" /\ rows # <<>>) =>
        LET r == rows[Len(rows)]
            a == result[1]
        IN /\ r.total_moves = a.move_num
           /\ FieldOK(r.black_total_blunders, r.black_first_blunder, a.black_blunders)
           /\ FieldOK(r.black_total_mistakes, r.black_first_mistake, a.black_mistakes)
           /\ FieldOK(r.white_total_blunders, r.white_first_blunder, a.white_blunders)
           /\ FieldOK(r.white_total_mistakes, r.white_first_mistake, a.white_mistakes)

\* a row with two white blunders at different moves and no black mistake
C8_Witness ==
    /\ pc = "read" /\ rows # <<>>
    /\ rows[Len(rows)].white_total_blunders = 2
    /\ rows[Len(rows)].white_first_blunder = <<1>>
    /\ result[1].white_blunders = <<1, 2>>
    /\ rows[Len(rows)].black_total_mistakes = 0
    /\ rows[Len(rows)].black_first_mistake = <<>>

C9_Inv ==
    /\ Sorted(white_mistakes) /\ Sorted(white_blunders)
    /\ Sorted(black_mistakes) /\ Sorted(black_blunders)
    /\ ag = "returned" =>
         /\ result[1].white_mistakes = white_mistakes
         /\ result[1].white_blunders = white_blunders
         /\ result[1].black_mistakes = black_mistakes
         /\ result[1].black_blunders = black_blunders

C9_Step ==
    ag = "running" =>
        /\ IsPrefix(white_mistakes, white_mistakes')
        /\ IsPrefix(white_blunders, white_blunders')
        /\ IsPrefix(black_mistakes, black_mistakes')
        /\ IsPrefix(black_blunders, black_blunders')
        /\ (score # <<>> /\ PlyDone
            /\ (score'[1] - score[1] >= 100 \/ score'[1] - score[1] <= -100)) =>
               TotalEvents' = TotalEvents + 1

\* C9: each event list is non-decreasing throughout the loop and in the returned
\* result; a step of the loop only appends to a list, and every ply that
\* produces an event adds an entry even when the list already ends with that
\* move number.
C9_AppendOnly == []C9_Inv /\ [][C9_Step]_vars

\* the returned list of white blunders holds the same move number twice
C9_Witness ==
    /\ ag = "returned"
    /\ \E i \in 1..(Len(result[1].white_blunders) - 1) :
         result[1].white_blunders[i] = result[1].white_blunders[i + 1]

C10_Inv ==
    /\ Len(rows) = game_count
    /\ outcome = "error" => pc = "returned"
    /\ (pc = "read" /\ exc = "none") => Len(rows) = pgn_pos
    /\ (exc \notin {"none", "FileNotFoundError"}) => Len(rows) = pgn_pos - 1

C10_Step ==
    /\ IsPrefix(rows, rows')
    /\ exc # "none" => /\ rows' = rows
                       /\ pgn_pos' = pgn_pos
                       /\ pc' = "returned"
    /\ pc = "returned" => UNCHANGED <<rows, pgn_pos, pc, outcome>>

\* C10: when processing a game raises, the batch stops: no row is written for
\* that game or any later one, earlier rows stay as written, parse_pgn_to_csv
\* returns; the rows written number the games processed before the failure.
C10_BatchStops == []C10_Inv /\ [][C10_Step]_vars

\* the second of three games failed after the first one's row was written
C10_Witness ==
    /\ pc = "returned" /\ outcome = "error"
    /\ Len(rows) = 1 /\ pgn_pos = 2 /\ Len(pgn_file) = 3
====
